---- MODULE Spec2Model ----
(***************************************************************************)
(* Model of the Prosperity trading engines: trader3.Trader and             *)
(* trader_round2.Trader (market makers), trader2.Trader (taker with        *)
(* restored history).  One Trader instance is driven round by round with   *)
(* TradingState snapshots.  Python floats are modelled by exact rationals  *)
(* n/d; the population standard deviation, a square root, is carried as    *)
(* its square (the variance) and every comparison with it is decided       *)
(* exactly.                                                                *)
(***************************************************************************)
EXTENDS Integers, Sequences, FiniteSets, TLC

----------------------------------------------------------------------------
(* Exact rational arithmetic standing for Python float arithmetic.         *)

RECURSIVE GCD(_, _)
GCD(a, b) == IF b = 0 THEN a ELSE GCD(b, a % b)

IAbs(i) == IF i < 0 THEN -i ELSE i

\* the rational n/d in lowest terms with a positive denominator
Q(n, d) ==
    LET s == IF d < 0 THEN -1 ELSE 1
        g == GCD(IAbs(n), IAbs(d))
    IN  [n |-> (s * n) \div g, d |-> (s * d) \div g]

QInt(i) == [n |-> i, d |-> 1]

QAdd(a, b) == Q(a.n * b.d + b.n * a.d, a.d * b.d)
QSub(a, b) == QAdd(a, [n |-> -b.n, d |-> b.d])
QMul(a, b) ==
    LET g1 == GCD(IAbs(a.n), b.d)
        g2 == GCD(IAbs(b.n), a.d)
    IN  Q((a.n \div g1) * (b.n \div g2), (a.d \div g2) * (b.d \div g1))
QDiv(a, b) == QMul(a, Q(b.d, b.n))
QAbs(a) == [n |-> IAbs(a.n), d |-> a.d]
QFloor(a) == a.n \div a.d

\* sign of p1/q1 - p2/q2 for p1, p2 >= 0 and q1, q2 > 0, by the Euclidean
\* expansion of both fractions (no products, so no 32-bit overflow)
RECURSIVE CmpFrac(_, _, _, _)
CmpFrac(p1, q1, p2, q2) ==
    LET i1 == p1 \div q1
        i2 == p2 \div q2
        r1 == p1 % q1
        r2 == p2 % q2
    IN  IF i1 # i2 THEN (IF i1 < i2 THEN -1 ELSE 1)
        ELSE IF r1 = 0 /\ r2 = 0 THEN 0
        ELSE IF r1 = 0 THEN -1
        ELSE IF r2 = 0 THEN 1
        ELSE CmpFrac(q2, r2, q1, r1)

\* sign of a - b
QCmp(a, b) ==
    IF a.n < 0 /\ b.n >= 0 THEN -1
    ELSE IF a.n >= 0 /\ b.n < 0 THEN 1
    ELSE IF a.n >= 0 THEN CmpFrac(a.n, a.d, b.n, b.d)
    ELSE CmpFrac(-b.n, b.d, -a.n, a.d)

QLt(a, b) == QCmp(a, b) < 0

\* largest integer b >= 0 with b*b <= s, for a rational s >= 0
RECURSIVE ISqrtFrom(_, _)
ISqrtFrom(s, b) ==
    IF QCmp(QInt((b + 1) * (b + 1)), s) <= 0 THEN ISqrtFrom(s, b + 1) ELSE b
ISqrt(s) == ISqrtFrom(s, 0)

\* sign of t - sqrt(s), for rationals t >= 0 and s >= 0
CmpSqrt(t, s) ==
    LET b == ISqrt(s)
        ft == QFloor(t)
        f == QSub(t, QInt(ft))
        rest == QSub(s, QInt(b * b))
    IN  IF ft > b THEN 1
        ELSE IF ft < b THEN -1
        ELSE IF f.n = 0 THEN (IF rest.n = 0 THEN 0 ELSE -1)
        \* (b + f)^2 vs s  <=>  f vs (s - b^2) / (2b + f)
        ELSE QCmp(f, QDiv(rest, QAdd(QInt(2 * b), f)))

\* sign of (a + sgn * sqrt(s)) - c, for sgn in {-1, 1} and s >= 0
CmpSurd(a, sgn, s, c) ==
    IF sgn = 1
    THEN LET t == QSub(c, a) IN IF t.n < 0 THEN 1 ELSE -CmpSqrt(t, s)
    ELSE LET t == QSub(a, c) IN IF t.n < 0 THEN -1 ELSE CmpSqrt(t, s)

\* Python round(): nearest integer, ties to the even one, of x = a + sgn*sqrt(s).
\* With fa = floor(a) and b = floor(sqrt(s)): fa + b <= x < fa + b + 2 for sgn = 1,
\* fa - b - 1 < x < fa - b + 1 for sgn = -1; the result is the first r from the
\* lower end with x below r + 1/2, or at it with r even.
RECURSIVE RoundFrom(_, _, _, _)
RoundFrom(a, sgn, s, r) ==
    IF CmpSurd(a, sgn, s, Q(2 * r + 1, 2)) \in (IF r % 2 = 0 THEN {-1, 0} ELSE {-1})
    THEN r ELSE RoundFrom(a, sgn, s, r + 1)

RoundSurd(a, sgn, s) ==
    RoundFrom(a, sgn, s, IF sgn = 1 THEN QFloor(a) + ISqrt(s) ELSE QFloor(a) - ISqrt(s) - 1)


----------------------------------------------------------------------------
(* Program constants.                                                      *)

LIMIT == 50
WINDOW_SIZE == 20
GAP_MULTIPLIER == 20
conversion_limit == 5

----------------------------------------------------------------------------
(* Estimators (trader3.py and trader_round2.py hold the same functions).   *)

\* price lists are sequences of rationals
ToQ(prices) == [i \in 1..Len(prices) |-> QInt(prices[i])]

\* alpha * p + (1 - alpha) * avg
ewma_step(alpha, avg, p) ==
    Q(alpha.n * p.n * avg.d + (alpha.d - alpha.n) * avg.n * p.d, alpha.d * avg.d * p.d)

\* the loop from prices[i] on, entered with avg
RECURSIVE ewma_from(_, _, _, _)
ewma_from(prices, alpha, avg, i) ==
    IF i > Len(prices) THEN avg
    ELSE <<avg, ewma_from(prices, alpha, ewma_step(alpha, avg, prices[i]), i + 1)>>[2]

\* avg = prices[0]; for p in prices[1:]: avg = alpha*p + (1-alpha)*avg
ewma(prices, alpha) ==
    IF prices = <<>> THEN QInt(0) ELSE ewma_from(prices, alpha, prices[1], 2)

\* sum(xs) of integers, xs[lo..hi] added up by halves (integer addition is
\* associative, so the total is the one of the left-to-right sum)
RECURSIVE sum_range(_, _, _)
sum_range(xs, lo, hi) ==
    IF lo > hi THEN 0
    ELSE IF lo = hi THEN xs[lo]
    ELSE sum_range(xs, lo, (lo + hi) \div 2) + sum_range(xs, (lo + hi) \div 2 + 1, hi)
ISum(xs) == sum_range(xs, 1, Len(xs))

\* a sequence of rationals over their common denominator: qs[i] = nums[i] / den
RECURSIVE lcm_upto(_, _)
lcm_upto(qs, i) ==
    IF i = 0 THEN 1
    ELSE LET den == lcm_upto(qs, i - 1) IN (den \div GCD(den, qs[i].d)) * qs[i].d
Scaled(qs) ==
    LET den == IF \A i \in 1..Len(qs) : qs[i].d = 1 THEN 1 ELSE lcm_upto(qs, Len(qs))
    IN  [den |-> den, nums |-> [i \in 1..Len(qs) |-> qs[i].n * (den \div qs[i].d)]]

\* mean(xs)
QMean(xs) == LET sx == Scaled(xs) IN Q(ISum(sx.nums), Len(xs) * sx.den)

\* sum((x - mean_x) * (y - mean_y) for x, y in zip(xs, ys)), mean_x = mean(xs) and
\* mean_y = mean(ys): with x = a/dx, y = b/dy, x - mean_x = (n*a - sum(a)) / (n*dx)
sum_products(xs, ys) ==
    LET n == Len(xs)
        sx == Scaled(xs)
        sy == Scaled(ys)
        sa == ISum(sx.nums)
        sb == ISum(sy.nums)
    IN  Q(ISum([i \in 1..n |-> (n * sx.nums[i] - sa) * (n * sy.nums[i] - sb)]),
          n * n * sx.den * sy.den)

\* rolling_std returns sqrt(sq); the fallback 1.0 is sq = 1, and
\* statistics.pstdev squared is the population variance
rolling_std(prices) ==
    IF Len(prices) < 2 THEN [sq |-> QInt(1)]
    ELSE [sq |-> QDiv(sum_products(prices, prices), QInt(Len(prices)))]

mutant_linear_regression(prices) ==
    LET n == Len(prices)
        xs == [i \in 1..n |-> QInt(i - 1)]
        slope == QDiv(sum_products(xs, prices), sum_products(xs, xs))
    IN  IF n = 0 THEN <<QInt(0), QInt(0)>>
        ELSE IF n = 1 THEN <<prices[1], QInt(0)>>
        ELSE <<QAdd(QSub(QMean(prices), QMul(slope, QMean(xs))), QMul(slope, QInt(n - 1))),
               slope>>

\* returns <<predicted price at x = n, slope>>
linear_regression(prices) ==
    LET n == Len(prices)
        xs == [i \in 1..n |-> QInt(i - 1)]
        mean_x == QMean(xs)
        mean_y == QMean(prices)
        num == sum_products(xs, prices)
        den == sum_products(xs, xs)
        slope == IF den.n # 0 THEN QDiv(num, den) ELSE QInt(0)
        intercept == QSub(mean_y, QMul(slope, mean_x))
    IN  IF n = 0 THEN <<QInt(0), QInt(0)>>
        ELSE IF n = 1 THEN <<prices[1], QInt(0)>>
        \* the statements in order: a tuple's values are computed left to right
        ELSE <<mean_x, mean_y, num, den, slope, intercept,
               <<QAdd(intercept, QMul(slope, QInt(n))), slope>>>>[7]

----------------------------------------------------------------------------
(* Values with a square root: lin + sqrt(sq), lin and sq rational.         *)

Surd(lin, sq) == [lin |-> lin, sq |-> sq]

\* max(1, sprd)
max1(sprd) ==
    IF CmpSurd(sprd.lin, 1, sprd.sq, QInt(1)) > 0 THEN sprd ELSE Surd(QInt(1), QInt(0))

\* int(round(fv - spread / 2))
bid_price_of(fv, spread) ==
    RoundSurd(QSub(fv, QMul(Q(1, 2), spread.lin)), -1, QMul(Q(1, 4), spread.sq))

\* int(round(fv + spread / 2))
ask_price_of(fv, spread) ==
    RoundSurd(QAdd(fv, QMul(Q(1, 2), spread.lin)), 1, QMul(Q(1, 4), spread.sq))

----------------------------------------------------------------------------
(* Order books: buy_orders and sell_orders map price -> quantity.          *)

Max(S) == CHOOSE x \in S : \A y \in S : y <= x
Min(S) == CHOOSE x \in S : \A y \in S : x <= y
Values(f) == {f[k] : k \in DOMAIN f}

\* s[-n:]
LastN(s, n) == IF Len(s) <= n THEN s ELSE SubSeq(s, Len(s) - n + 1, Len(s))

\* the liquidity factor of compute_order_size
liquidity_factor(order_depth, base_scale) ==
    IF DOMAIN order_depth.buy_orders # {} /\ DOMAIN order_depth.sell_orders # {}
    THEN LET best_bid_qty == Max(Values(order_depth.buy_orders))
             best_ask_qty == Min(Values(order_depth.sell_orders))
         IN  Q(best_bid_qty + best_ask_qty, 2)
    ELSE IF DOMAIN order_depth.buy_orders # {}
    THEN QInt(Max(Values(order_depth.buy_orders)))
    ELSE IF DOMAIN order_depth.sell_orders # {}
    THEN QInt(Min(Values(order_depth.sell_orders)))
    ELSE QInt(base_scale)

\* 1 + gap_percentage * GAP_MULTIPLIER
gap_multiplier(recent_prices, fair_value) ==
    LET current_price == recent_prices[Len(recent_prices)]
        gap == QAbs(QSub(current_price, fair_value))
        gap_percentage == IF fair_value.n # 0
                          THEN QMul(QDiv(gap, fair_value), QInt(100))
                          ELSE QInt(0)
    IN  QAdd(QInt(1), QMul(gap_percentage, QInt(GAP_MULTIPLIER)))

\* whether int(round(m / sqrt(sq))) exceeds k, for k >= 0 and sq > 0
RoundsAbove(m, sq, k) ==
    LET c == Q(2 * k + 1, 2)
        cmp == IF m.n <= 0 THEN -1 ELSE CmpSqrt(QDiv(m, c), sq)
    IN  cmp > 0 \/ (cmp = 0 /\ k % 2 = 1)

\* min(max(lo, int(round(m / sqrt(sq)))), hi), for 0 <= lo <= hi: the rounded
\* value exceeds k for every k below it and no other, so the range is bisected
RECURSIVE clamped_round(_, _, _, _)
clamped_round(m, sq, lo, hi) ==
    IF lo = hi THEN lo
    ELSE LET mid == (lo + hi) \div 2
         IN  IF RoundsAbove(m, sq, mid) THEN clamped_round(m, sq, mid + 1, hi)
             ELSE clamped_round(m, sq, lo, mid)

min_size == 3
max_size == 20

mutant_clamp_size(m, sq) == clamped_round(m, sq, 1, max_size)

\* computed_size = max(3, computed_size); computed_size = min(computed_size, 20)
clamp_size(m, sq) == clamped_round(m, sq, min_size, max_size)

\* the tail of compute_order_size, after base_scale is chosen
sized(recent_prices, order_depth, fair_value, base_scale) ==
    LET std == rolling_std(recent_prices)
        vol_sq == IF std.sq.n = 0 THEN QInt(1) ELSE std.sq
        m == QMul(QMul(QInt(base_scale), liquidity_factor(order_depth, base_scale)),
                  gap_multiplier(recent_prices, fair_value))
    IN  clamp_size(m, vol_sq)

slope_scale(recent_prices) ==
    IF QLt(Q(1, 2), QAbs(linear_regression(recent_prices)[2])) THEN 6 ELSE 4

\* trader3.compute_order_size
compute_order_size(product, recent_prices, order_depth, current_position, fair_value) ==
    IF recent_prices = <<>> THEN 1
    ELSE sized(recent_prices, order_depth, fair_value,
               CASE product = "RAINFOREST_RESIN" -> 5
                 [] product = "KELP" -> 3
                 [] product = "SQUID_INK" -> slope_scale(recent_prices)
                 [] OTHER -> 5)

----------------------------------------------------------------------------
(* Python values that cross jsonpickle: [t, v] with t the type.  JSON      *)
(* texts are over numbers, strings, arrays and objects.                    *)

PyNone == [t |-> "None", v |-> <<>>]
PyInt(n) == [t |-> "int", v |-> n]
PyList(items) == [t |-> "list", v |-> items]
\* a dict: its items, in insertion order, as <<key, value>> pairs
PyDict(items) == [t |-> "dict", v |-> items]

\* a dict of price lists, keys in insertion order
PyPrices(keys, d) ==
    PyDict([i \in 1..Len(keys) |->
               <<keys[i], PyList([j \in 1..Len(d[keys[i]]) |-> PyInt(d[keys[i]][j])])>>])

\* bool(x)
truthy(x) ==
    CASE x.t = "None" -> FALSE
      [] x.t = "int" -> x.v # 0
      [] x.t = "str" -> x.v # ""
      [] OTHER -> x.v # <<>>

(* The JSON text is a sequence of tokens [k, v]: k is "p" (punctuation),   *)
(* "str" or "num", v the token's text.                                     *)

Tok(k, v) == [k |-> k, v |-> v]
Punct(v) == Tok("p", v)

RECURSIVE encode_value(_), encode_items(_), encode_members(_)

encode_items(xs) ==
    IF xs = <<>> THEN <<>>
    ELSE IF Len(xs) = 1 THEN encode_value(xs[1])
    ELSE encode_value(xs[1]) \o <<Punct(",")>> \o encode_items(Tail(xs))

encode_members(items) ==
    IF items = <<>> THEN <<>>
    ELSE LET member == <<Tok("str", items[1][1]), Punct(":")>> \o encode_value(items[1][2])
         IN  IF Len(items) = 1 THEN member
             ELSE member \o <<Punct(",")>> \o encode_members(Tail(items))

\* jsonpickle.encode
encode_value(x) ==
    CASE x.t = "None" -> <<Tok("p", "null")>>
      [] x.t = "int" -> <<Tok("num", ToString(x.v))>>
      [] x.t = "str" -> <<Tok("str", x.v)>>
      [] x.t = "list" -> <<Punct("[")>> \o encode_items(x.v) \o <<Punct("]")>>
      [] OTHER -> <<Punct("{")>> \o encode_members(x.v) \o <<Punct("}")>>

\* jsonpickle.encode(d) for a dict d of price lists whose keys are keys
encode(keys, d) == encode_value(PyPrices(keys, d))

MaxNum == 130
Failed == [ok |-> FALSE, val |-> PyNone, next |-> 0]
Parsed(val, next) == [ok |-> TRUE, val |-> val, next |-> next]
IsTok(toks, i, tok) == i <= Len(toks) /\ toks[i] = tok

RECURSIVE parse_value(_, _), parse_items(_, _, _), parse_members(_, _, _)

\* the elements of an array, from token i on, after acc
parse_items(toks, i, acc) ==
    LET r == parse_value(toks, i)
    IN  IF ~r.ok THEN Failed
        ELSE IF IsTok(toks, r.next, Punct(","))
             THEN parse_items(toks, r.next + 1, Append(acc, r.val))
        ELSE IF IsTok(toks, r.next, Punct("]"))
             THEN Parsed(PyList(Append(acc, r.val)), r.next + 1)
        ELSE Failed

\* the members of an object, from token i on, after acc
parse_members(toks, i, acc) ==
    IF ~(i + 1 <= Len(toks) /\ toks[i].k = "str" /\ toks[i + 1] = Punct(":")) THEN Failed
    ELSE LET r == parse_value(toks, i + 2)
         IN  IF ~r.ok THEN Failed
             ELSE IF IsTok(toks, r.next, Punct(","))
                  THEN parse_members(toks, r.next + 1, Append(acc, <<toks[i].v, r.val>>))
             ELSE IF IsTok(toks, r.next, Punct("}"))
                  THEN Parsed(PyDict(Append(acc, <<toks[i].v, r.val>>)), r.next + 1)
             ELSE Failed

parse_value(toks, i) ==
    IF i > Len(toks) THEN Failed
    ELSE CASE toks[i].k = "num" ->
                IF \E n \in 0..MaxNum : ToString(n) = toks[i].v
                THEN Parsed(PyInt(CHOOSE n \in 0..MaxNum : ToString(n) = toks[i].v), i + 1)
                ELSE Failed
           [] toks[i].k = "str" -> Parsed([t |-> "str", v |-> toks[i].v], i + 1)
           [] toks[i] = Punct("null") -> Parsed(PyNone, i + 1)
           [] toks[i] = Punct("[") ->
                IF IsTok(toks, i + 1, Punct("]")) THEN Parsed(PyList(<<>>), i + 2)
                ELSE parse_items(toks, i + 1, <<>>)
           [] toks[i] = Punct("{") ->
                IF IsTok(toks, i + 1, Punct("}")) THEN Parsed(PyDict(<<>>), i + 2)
                ELSE parse_members(toks, i + 1, <<>>)
           [] OTHER -> Failed

\* jsonpickle.decode: [ok |-> FALSE] stands for the exception it raises
decode(toks) ==
    LET r == parse_value(toks, 1)
    IN  IF r.ok /\ r.next = Len(toks) + 1 THEN [ok |-> TRUE, val |-> r.val]
        ELSE [ok |-> FALSE, val |-> PyNone]

----------------------------------------------------------------------------
(* TradingState accessors.                                                 *)

\* state.position.get(product, 0)
position_get(st, product) ==
    IF product \in DOMAIN st.position THEN st.position[product] ELSE 0

\* product in state.market_trades and len(state.market_trades[product]) > 0
has_trade(st, product) ==
    product \in DOMAIN st.market_trades /\ Len(st.market_trades[product]) > 0

\* state.market_trades[product][-1].price
last_trade_price(st, product) ==
    st.market_trades[product][Len(st.market_trades[product])].price

mutant_window_cut(w) == LastN(w, WINDOW_SIZE + 1)

\* self.prices_map[product][-WINDOW_SIZE:]
window_cut(w) == LastN(w, WINDOW_SIZE)

mutant_update_prices(pm, st) ==
    [product \in DOMAIN pm |->
        IF product \in DOMAIN st.market_trades
        THEN window_cut(pm[product] \o
                 [i \in 1..Len(st.market_trades[product]) |-> st.market_trades[product][i].price])
        ELSE pm[product]]

mutant_update_every(pm, st) ==
    [product \in DOMAIN pm |->
        IF \E traded \in DOMAIN pm : has_trade(st, traded)
        THEN window_cut(Append(pm[product],
                 last_trade_price(st, CHOOSE traded \in DOMAIN pm : has_trade(st, traded))))
        ELSE pm[product]]

\* the update loop of run: append the last trade price, keep the last WINDOW_SIZE
update_prices(pm, st) ==
    [product \in DOMAIN pm |->
        IF has_trade(st, product)
        THEN window_cut(Append(pm[product], last_trade_price(st, product)))
        ELSE pm[product]]

Order(symbol, price, quantity) == [symbol |-> symbol, price |-> price, quantity |-> quantity]

mutant_available_buy(limit, current_pos) == limit + current_pos

\* available_buy = LIMIT - current_pos
available_buy_of(limit, current_pos) == limit - current_pos

mutant_available_sell(limit, current_pos) == limit - current_pos

\* available_sell = LIMIT + current_pos
available_sell_of(limit, current_pos) == limit + current_pos

IMin(a, b) == IF a < b THEN a ELSE b

\* the two-sided quote of one product: buy at bid_price, sell at ask_price
mutant_quote_orders(product, bid_price, ask_price, base_size, current_pos, limit) ==
    (IF limit - current_pos > 0 THEN <<Order(product, bid_price, base_size)>> ELSE <<>>)
        \o (IF limit + current_pos > 0
            THEN <<Order(product, ask_price, -IMin(base_size, limit + current_pos))>>
            ELSE <<>>)

quote_orders(product, bid_price, ask_price, base_size, current_pos, limit) ==
    LET available_buy == available_buy_of(limit, current_pos)
        available_sell == available_sell_of(limit, current_pos)
        buy_size == IF available_buy > 0 THEN IMin(base_size, available_buy) ELSE 0
        sell_size == IF available_sell > 0 THEN IMin(base_size, available_sell) ELSE 0
    IN  (IF buy_size > 0 THEN <<Order(product, bid_price, buy_size)>> ELSE <<>>)
        \o (IF sell_size > 0 THEN <<Order(product, ask_price, -sell_size)>> ELSE <<>>)

----------------------------------------------------------------------------
(* trader3.Trader                                                          *)

Products3 == <<"RAINFOREST_RESIN", "KELP", "SQUID_INK">>
Traded3 == {"RAINFOREST_RESIN", "KELP", "SQUID_INK"}


\* a dict comprehension: the function with every entry computed once
Dict(f) == f @@ <<>>

\* fair_values[product] and the sprd of the same pass of the loop, vol and lr
\* being rolling_std(recent_prices) and linear_regression(recent_prices)
estimate_of3(product, recent_prices, vol, lr) ==
    CASE product = "RAINFOREST_RESIN" ->
               [fv |-> ewma(recent_prices, Q(1, 10)),
                sprd |-> Surd(QInt(0), QMul(QInt(4), vol.sq))]
          [] product = "KELP" ->
               [fv |-> ewma(recent_prices, Q(3, 10)),
                sprd |-> Surd(QInt(0), QMul(QInt(9), vol.sq))]
          [] OTHER ->
               [fv |-> lr[1],
                sprd |-> Surd(QMul(Q(1, 2), QAbs(lr[2])), QMul(QInt(4), vol.sq))]

estimate3(product, recent_prices) ==
    estimate_of3(product, recent_prices, rolling_std(recent_prices),
                 linear_regression(recent_prices))

\* spread_map[product] = max(1, sprd)
floored(e) == [fv |-> e.fv, spread |-> max1(e.sprd)]

\* fair_values and spread_map: per product, fv and spread = max(1, sprd)
estimates3(pm) ==
    Dict([product \in DOMAIN pm |-> floored(estimate3(product, ToQ(pm[product])))])

\* the locals of one pass of the quoting loop, with the orders it appends
quote_locals(product, fv, spread, recent_prices, current_pos, limit, bid_price, ask_price, base_size) ==
    [fv |-> fv, spread |-> spread, bid_price |-> bid_price, ask_price |-> ask_price,
     recent_prices |-> recent_prices, base_size |-> base_size,
     current_pos |-> current_pos, limit |-> limit,
     orders |-> quote_orders(product, bid_price, ask_price, base_size, current_pos, limit)]

\* one pass of the quoting loop for a product with fair value fv and the given
\* spread, window and position
quote_of3(product, fv, spread, recent_prices, current_pos, order_depth) ==
    quote_locals(product, fv, spread, recent_prices, current_pos, LIMIT,
                 bid_price_of(fv, spread), ask_price_of(fv, spread),
                 \* called as compute_order_size(product, recent_prices, order_depth, fv, current_pos)
                 compute_order_size(product, recent_prices, order_depth, fv, QInt(current_pos)))

quote3(estimates, pm, st, product) ==
    quote_of3(product, estimates[product].fv, estimates[product].spread, ToQ(pm[product]),
              position_get(st, product), st.order_depths[product])

effective_margin(conv_obs) ==
    (conv_obs.bidPrice - conv_obs.askPrice)
        - (conv_obs.transportFees + conv_obs.exportTariff + conv_obs.importTariff)

mutant_conversion_size(current_pos) == IAbs(current_pos)

\* min(abs(current_pos), conversion_limit)
conversion_size(current_pos) == IMin(IAbs(current_pos), conversion_limit)

\* the conversion loop, over Products3 in order; the last match wins
RECURSIVE conversion3(_, _, _)
conversion3(st, products, request) ==
    IF products = <<>> THEN request
    ELSE LET product == Head(products)
             current_pos == position_get(st, product)
             fires == /\ product \in DOMAIN st.observations.conversionObservations
                      /\ current_pos # 0
                      /\ effective_margin(st.observations.conversionObservations[product]) > 0
         IN  conversion3(st, Tail(products),
                         IF fires THEN conversion_size(current_pos) ELSE request)

\* the quoting loop: the locals of every pass
quotes3(estimates, pm, st) ==
    Dict([product \in DOMAIN st.order_depths |-> quote3(estimates, pm, st, product)])

\* what run returns, or the exception it raises, once self.prices_map is pm2 and
\* the quoting loop has the locals quotes
returned3(pm2, st, quotes) ==
    \* self.prices_map[product] is read for every product of order_depths
    IF \E product \in DOMAIN st.order_depths : product \notin Traded3
    THEN [memory |-> pm2, outcome |-> "KeyError", result |-> <<>>,
          conversions |-> 0, traderData |-> <<>>, quotes |-> <<>>]
    ELSE [memory |-> pm2, outcome |-> "returned",
          result |-> Dict([product \in DOMAIN st.order_depths |-> quotes[product].orders]),
          conversions |-> IF st.observations.truthy
                          THEN conversion3(st, Products3, 0) ELSE 0,
          traderData |-> encode(Products3, pm2),
          quotes |-> quotes]

\* run after the update loop, self.prices_map being pm2
updated3(pm2, st) == returned3(pm2, st, quotes3(estimates3(pm2), pm2, st))

\* trader3.Trader.run on an instance whose self.prices_map is pm
run3(pm, st) == updated3(update_prices(pm, st), st)

----------------------------------------------------------------------------
(* trader_round2.Trader                                                    *)

ProductsR2 == <<"CROISSANTS", "JAMS", "DJEMBES">>
TrackedR2 == {"CROISSANTS", "JAMS", "DJEMBES"}
Baskets == {"PICNIC_BASKET1", "PICNIC_BASKET2"}
TradedR2 == TrackedR2 \cup Baskets

POSITION_LIMITS ==
    [product \in TradedR2 |->
        CASE product = "CROISSANTS" -> 250
          [] product = "JAMS" -> 350
          [] product = "DJEMBES" -> 60
          [] product = "PICNIC_BASKET1" -> 60
          [] OTHER -> 100]


\* trader_round2.compute_order_size
compute_order_sizeR2(product, recent_prices, order_depth, current_position, fair_value) ==
    IF recent_prices = <<>> THEN 1
    ELSE sized(recent_prices, order_depth, fair_value,
               CASE product \in {"CROISSANTS", "JAMS"} -> 5
                 [] product = "DJEMBES" -> slope_scale(recent_prices)
                 [] product \in Baskets -> 3
                 [] OTHER -> 5)

\* fair_values[product] and the sprd of the same pass of the loop, for an
\* ingredient, vol and lr being rolling_std(recent_prices) and
\* linear_regression(recent_prices)
estimate_ofR2(product, recent_prices, vol, lr) ==
    IF product = "DJEMBES"
    THEN [fv |-> lr[1],
          sprd |-> Surd(QMul(Q(1, 2), QAbs(lr[2])), QMul(QInt(4), vol.sq))]
    ELSE [fv |-> ewma(recent_prices, Q(1, 5)),
          sprd |-> Surd(QInt(0), QMul(QInt(4), vol.sq))]

estimateR2(product, recent_prices) ==
    estimate_ofR2(product, recent_prices, rolling_std(recent_prices),
                  linear_regression(recent_prices))

mutant_basket1_fv(ingredients) ==
    QAdd(QAdd(QMul(QInt(6), ingredients["CROISSANTS"].fv),
              QMul(QInt(2), ingredients["JAMS"].fv)),
         ingredients["DJEMBES"].fv)

\* 6 * CROISSANTS + 3 * JAMS + 1 * DJEMBES, on the ingredients' estimates
basket1_fv(ingredients) ==
    QAdd(QAdd(QMul(QInt(6), ingredients["CROISSANTS"].fv),
              QMul(QInt(3), ingredients["JAMS"].fv)),
         ingredients["DJEMBES"].fv)

\* 4 * CROISSANTS + 2 * JAMS
basket2_fv(ingredients) ==
    QAdd(QMul(QInt(4), ingredients["CROISSANTS"].fv),
         QMul(QInt(2), ingredients["JAMS"].fv))

\* a basket's fair value and its spread, max(1, 0.05 * basket_fv)
basket_estimate(fv) == [fv |-> fv, spread |-> max1(Surd(QMul(Q(1, 20), fv), QInt(0)))]

\* fair_values and spread_map after the baskets are added
with_baskets(ingredients) ==
    ingredients @@ ("PICNIC_BASKET1" :> basket_estimate(basket1_fv(ingredients)))
                @@ ("PICNIC_BASKET2" :> basket_estimate(basket2_fv(ingredients)))

\* fair_values and spread_map, per product fv and spread
estimatesR2(pm) ==
    with_baskets(Dict([product \in DOMAIN pm |->
                         floored(estimateR2(product, ToQ(pm[product])))]))

\* one pass of the quoting loop for a product with fair value fv and the given
\* spread, window and position
quote_ofR2(product, fv, spread, recent_prices, current_pos, order_depth) ==
    quote_locals(product, fv, spread, recent_prices, current_pos, POSITION_LIMITS[product],
                 bid_price_of(fv, spread), ask_price_of(fv, spread),
                 compute_order_sizeR2(product, recent_prices, order_depth, current_pos, fv))

quoteR2(estimates, pm, st, product) ==
    quote_ofR2(product, estimates[product].fv, estimates[product].spread,
               \* self.prices_map.get(product, [fv])
               IF product \in DOMAIN pm THEN ToQ(pm[product]) ELSE <<estimates[product].fv>>,
               position_get(st, product), st.order_depths[product])

mutant_basket_signal(st, basket, intrinsic) ==
    IF basket \notin DOMAIN st.order_depths THEN 0
    ELSE LET od == st.order_depths[basket]
         IN  IF DOMAIN od.buy_orders = {} \/ DOMAIN od.sell_orders = {} THEN 0
             ELSE LET basket_mid == Q(Max(DOMAIN od.buy_orders) + Min(DOMAIN od.sell_orders), 2)
                  IN  IF ~QLt(QMul(Q(19, 20), intrinsic), basket_mid) THEN conversion_limit
                      ELSE IF QLt(QMul(Q(21, 20), intrinsic), basket_mid) THEN -conversion_limit
                      ELSE 0

\* the conversion evaluation of one basket: 0 stands for "no entry"
basket_signal(st, basket, intrinsic) ==
    IF basket \notin DOMAIN st.order_depths THEN 0
    ELSE LET od == st.order_depths[basket]
         IN  IF DOMAIN od.buy_orders = {} \/ DOMAIN od.sell_orders = {} THEN 0
             ELSE LET best_bid == Max(DOMAIN od.buy_orders)
                      best_ask == Min(DOMAIN od.sell_orders)
                      basket_mid == Q(best_bid + best_ask, 2)
                  IN  IF QLt(basket_mid, QMul(Q(19, 20), intrinsic)) THEN conversion_limit
                      ELSE IF QLt(QMul(Q(21, 20), intrinsic), basket_mid) THEN -conversion_limit
                      ELSE 0

\* conversion_request: the dict holds a basket only when its signal is set
conversionR2(estimates, st) ==
    LET sig == Dict([basket \in Baskets |->
                       basket_signal(st, basket, estimates[basket].fv)])
    IN  Dict([basket \in {b \in Baskets : sig[b] # 0} |-> sig[basket]])

\* what run returns once self.prices_map is pm2, fair_values and spread_map are
\* estimates and the quoting loop has the locals quotes
returnedR2(pm2, st, estimates, quotes) ==
    [memory |-> pm2, outcome |-> "returned",
     result |-> Dict([product \in DOMAIN st.order_depths |->
                    IF product \in DOMAIN quotes THEN quotes[product].orders ELSE <<>>]),
     conversions |-> conversionR2(estimates, st),
     traderData |-> encode(ProductsR2, pm2),
     quotes |-> quotes]

\* the quoting loop: the locals of every pass that quotes
quotesR2(estimates, pm, st) ==
    Dict([product \in DOMAIN st.order_depths \cap TradedR2 |->
            quoteR2(estimates, pm, st, product)])

estimatedR2(pm2, st, estimates) == returnedR2(pm2, st, estimates, quotesR2(estimates, pm2, st))

\* run after the update loop, self.prices_map being pm2
updatedR2(pm2, st) == estimatedR2(pm2, st, estimatesR2(pm2))

\* trader_round2.Trader.run on an instance whose self.prices_map is pm
runR2(pm, st) == updatedR2(update_prices(pm, st), st)

----------------------------------------------------------------------------
(* trader2.Trader: the legacy taker, history restored from traderData.     *)

\* the default historical prices of run
default_historical_prices ==
    PyPrices(Products3, [product \in Traded3 |->
        CASE product = "RAINFOREST_RESIN" -> <<100, 100, 101>>
          [] product = "KELP" -> <<50, 70, 55>>
          [] OTHER -> <<40, 42, 44>>])

\* d.get(key, default) on a dict
dict_get(d, key, default) ==
    LET idx == {i \in 1..Len(d.v) : d.v[i][1] = key}
    IN  IF idx = {} THEN default ELSE d.v[Max(idx)][2]

Raised(error) == [ok |-> FALSE, error |-> error, val |-> QInt(0)]
Value(val) == [ok |-> TRUE, error |-> "", val |-> val]

\* squid_trend, or the exception the computation raises
squid_trend_of(hp) ==
    LET squid_prices == dict_get(hp, "SQUID_INK", PyList(<<>>))
        n == Len(squid_prices.v)
    IN  IF squid_prices.t \in {"int", "None"} THEN Raised("TypeError")
        ELSE IF n < 2 THEN Value(QInt(0))
        ELSE IF squid_prices.t = "str" THEN Raised("TypeError")
        ELSE IF squid_prices.t = "dict" THEN Raised("KeyError")
        ELSE IF squid_prices.v[1].t = "int" /\ squid_prices.v[n].t = "int"
             THEN Value(Q(squid_prices.v[n].v - squid_prices.v[1].v, n - 1))
        ELSE Raised("TypeError")


\* avg_price, or the exception sum(prices_hist) / len(prices_hist) raises
avg_price_of(hp, product) ==
    LET prices_hist == dict_get(hp, product, PyList(<<>>))
    IN  IF ~truthy(prices_hist)
        THEN Value(IF product = "RAINFOREST_RESIN" THEN QInt(10) ELSE QInt(20))
        ELSE IF prices_hist.t = "list" /\ \A i \in 1..Len(prices_hist.v) : prices_hist.v[i].t = "int"
             THEN Value(Q(ISum([i \in 1..Len(prices_hist.v) |-> prices_hist.v[i].v]), Len(prices_hist.v)))
        ELSE Raised("TypeError")

\* the BUY LOGIC block
taker_buy(product, order_depth, fair_value, current_position) ==
    IF DOMAIN order_depth.sell_orders = {} THEN <<>>
    ELSE LET best_ask == Min(DOMAIN order_depth.sell_orders)
             available_qty == order_depth.sell_orders[best_ask]
             max_buy == IAbs((-LIMIT) - current_position)
             qty == IMin(available_qty, max_buy)
         IN  IF QLt(QInt(best_ask), fair_value) /\ qty > 0
             THEN <<Order(product, best_ask, -qty)>> ELSE <<>>

\* the SELL LOGIC block
taker_sell(product, order_depth, fair_value, current_position) ==
    IF DOMAIN order_depth.buy_orders = {} THEN <<>>
    ELSE LET best_bid == Max(DOMAIN order_depth.buy_orders)
             available_qty == order_depth.buy_orders[best_bid]
             max_sell == LIMIT - current_position
             qty == IMin(available_qty, max_sell)
         IN  IF QLt(fair_value, QInt(best_bid)) /\ qty > 0
             THEN <<Order(product, best_bid, qty)>> ELSE <<>>

\* the locals of one pass of the product loop, with the orders it appends
taker_locals(product, order_depth, fair_value, current_position) ==
    [fair_value |-> fair_value, current_position |-> current_position,
     orders |-> taker_buy(product, order_depth, fair_value, current_position)
                \o taker_sell(product, order_depth, fair_value, current_position)]

\* one pass of the product loop, avg_price and squid_trend given
taker_quote(st, product, avg_price, squid_trend) ==
    taker_locals(product, st.order_depths[product],
                 IF product = "SQUID_INK"
                 THEN QAdd(avg_price, QMul(Q(1, 2), squid_trend)) ELSE avg_price,
                 position_get(st, product))

\* if not self.historical_prices: the default historical prices
or_default(restored) == IF ~truthy(restored) THEN default_historical_prices ELSE restored

\* jsonpickle.decode in the try block: None when it raises
decoded_or_none(decoded) == IF decoded.ok THEN decoded.val ELSE PyNone

\* self.historical_prices after the restore block
restore(historical_prices, st) ==
    or_default(IF st.traderData # <<>> THEN decoded_or_none(decode(st.traderData))
               ELSE historical_prices)

Returned2(hp, error) ==
    [memory |-> hp, outcome |-> error, result |-> <<>>, conversions |-> 0,
     traderData |-> <<>>, quotes |-> <<>>]

\* what run returns, or the exception it raises, once self.historical_prices is
\* hp, avg holds the avg_price of every pass and quotes its locals
returned2(hp, st, squid_trend, avg, quotes) ==
    IF hp.t # "dict" THEN Returned2(hp, "AttributeError")
    ELSE IF ~squid_trend.ok THEN Returned2(hp, squid_trend.error)
    ELSE IF \E product \in DOMAIN avg : ~avg[product].ok THEN Returned2(hp, "TypeError")
    ELSE [memory |-> hp, outcome |-> "returned",
          result |-> Dict([product \in DOMAIN st.order_depths |->
                         IF product \in DOMAIN quotes THEN quotes[product].orders ELSE <<>>]),
          conversions |-> 1,
          traderData |-> encode_value(hp),
          quotes |-> quotes]

\* the product loop: the locals of every pass over one of the three assets
quotes2(st, squid_trend, avg) ==
    Dict([product \in DOMAIN avg |->
            taker_quote(st, product, avg[product].val, squid_trend.val)])

averaged2(hp, st, squid_trend, avg) ==
    returned2(hp, st, squid_trend, avg, quotes2(st, squid_trend, avg))

\* run after the restore block, self.historical_prices being hp
restored2(hp, st) ==
    averaged2(hp, st, squid_trend_of(hp),
              Dict([product \in DOMAIN st.order_depths \cap Traded3 |->
                      avg_price_of(hp, product)]))

\* trader2.Trader.run on an instance whose self.historical_prices is historical_prices
run2(historical_prices, st) == restored2(restore(historical_prices, st), st)

----------------------------------------------------------------------------
(* The rounds: one Trader instance, one TradingState per round.            *)

MaxRounds == 2


Traded(v) == IF v = "trader_round2" THEN TradedR2 ELSE Traded3
Tracked(v) == IF v = "trader_round2" THEN TrackedR2 ELSE Traded3
\* with a product the variant does not trade, listed by the exchange all the same
Listed(v) == Traded(v) \cup {IF v = "trader_round2" THEN "KELP" ELSE "CROISSANTS"}
LimitOf(v, product) ==
    IF v = "trader_round2" /\ product \in TradedR2 THEN POSITION_LIMITS[product] ELSE LIMIT

OrderDepth(buy_orders, sell_orders) == [buy_orders |-> buy_orders, sell_orders |-> sell_orders]

\* sell quantities are negative
Book(name) ==
    CASE name = "bid_only" -> OrderDepth((10 :> 3) @@ (9 :> 5), <<>>)
      [] name = "ask_only" -> OrderDepth(<<>>, (12 :> -3) @@ (13 :> -8))
      [] name = "low" -> OrderDepth((10 :> 3) @@ (9 :> 5), (12 :> -3) @@ (13 :> -8))
      [] name = "high" -> OrderDepth((94 :> 4) @@ (93 :> 6), (96 :> -4) @@ (97 :> -6))
      [] OTHER -> OrderDepth(<<>>, <<>>)

Trade(price) == [price |-> price]
Trades(name) ==
    CASE name = "one" -> <<Trade(10)>>
      [] name = "two" -> <<Trade(10), Trade(12)>>
      [] OTHER -> <<>>

\* positions the exchange reports: none, and at or near either limit
PositionChoices(limit) ==
    {[known |-> FALSE, pos |-> 0]}
        \cup {[known |-> TRUE, pos |-> q] : q \in {limit - 2, limit, -limit}}

Observations(truthy_, conversionObservations) ==
    [truthy |-> truthy_, conversionObservations |-> conversionObservations]
ConversionObservation(bidPrice, askPrice, fees) ==
    [bidPrice |-> bidPrice, askPrice |-> askPrice, transportFees |-> fees,
     exportTariff |-> 1, importTariff |-> 1]
ObservationsOf(name, product) ==
    CASE name = "gain" -> Observations(TRUE, product :> ConversionObservation(20, 10, 2))
      [] name = "loss" -> Observations(TRUE, product :> ConversionObservation(12, 10, 2))
      [] OTHER -> Observations(FALSE, <<>>)

\* what a round brings: the book, position, market trades and conversion
\* observation of one product, and whether the other traded products are listed
Market(b, c, t, o, rest) ==
    [book |-> b, position |-> c, trades |-> t, observation |-> o, rest |-> rest]
Quiet == Market("low", [known |-> FALSE, pos |-> 0], "absent", "empty", TRUE)

\* a round differs from the quiet one in the book and position of the one product
\* listed, in the market trades, or (trader3 reads observations) in the position
\* and the observation
Markets(v, focus) ==
    {[Quiet EXCEPT !.book = b, !.position = c, !.rest = FALSE] :
        b \in {"absent", "empty", "bid_only", "ask_only", "low", "high"}, c \in PositionChoices(LimitOf(v, focus))}
    \cup {[Quiet EXCEPT !.trades = t] : t \in {"absent", "none", "one", "two"}}
    \cup {[Quiet EXCEPT !.position = c, !.observation = o] :
            c \in PositionChoices(LimitOf(v, focus)) \cup {[known |-> TRUE, pos |-> -3]},
            o \in IF v = "trader3" THEN {"gain", "loss"} ELSE {}}

\* the snapshot of a round with market m for the focus product
Snapshot(v, td, focus, m) ==
    [traderData |-> td,
     order_depths |->
        [product \in (IF m.rest THEN Traded(v) \ {focus} ELSE {})
                        \cup (IF m.book = "absent" THEN {} ELSE {focus}) |->
            IF product = focus THEN Book(m.book) ELSE Book(Quiet.book)],
     market_trades |->
        [product \in (IF m.trades = "absent" THEN {} ELSE {focus}) |-> Trades(m.trades)],
     position |->
        [product \in (IF m.position.known THEN {focus} ELSE {}) |-> m.position.pos],
     observations |-> ObservationsOf(m.observation, focus)]

NoState ==
    [traderData |-> <<>>, order_depths |-> <<>>, market_trades |-> <<>>,
     position |-> <<>>, observations |-> Observations(FALSE, <<>>)]

\* a window as it stands after n rounds that each traded at price 10
Seed(n) == [i \in 1..n |-> 10]

VARIABLES
    variant,            \* which Trader class the instance is
    prices_map,         \* self.prices_map (trader3, trader_round2)
    historical_prices,  \* self.historical_prices (trader2)
    state,              \* the TradingState of the last round
    outcome,            \* "fresh", "idle", "returned", or the exception run raised
    result,             \* the orders the last round returned
    conversions,        \* the conversion value the last round returned
    traderData,         \* the state string the last round returned
    quotes,             \* the locals of the last round's quoting loop
    history,            \* per product, the last trade price of every round it traded in
    before,             \* the instance's memory when the last round started
    in_memory,          \* the memory of the instance that ran the round before
    twin_out,           \* what that instance returns for the last round's snapshot
    handed,             \* the last snapshot carried the state string returned before it
    rounds

vars == <<variant, prices_map, historical_prices, state, outcome, result, conversions,
          traderData, quotes, history, before, in_memory, twin_out, handed, rounds>>

\* what run hands to its caller
Out(r) == [outcome |-> r.outcome, result |-> r.result, conversions |-> r.conversions,
           traderData |-> r.traderData]

\* the memory of the instance, whichever attribute holds it
Memory == IF variant = "trader2" THEN historical_prices ELSE prices_map

Init ==
    \E v \in {"trader3", "trader_round2", "trader2"}, n \in {0, WINDOW_SIZE} :
        /\ v = "trader2" => n = 0
        /\ variant = v
        /\ prices_map = IF v = "trader2" THEN <<>> ELSE [product \in Tracked(v) |-> Seed(n)]
        /\ historical_prices = PyNone
        /\ state = NoState
        /\ outcome = "fresh"
        /\ result = <<>>
        /\ conversions = 0
        /\ traderData = IF n = 0 THEN <<>>
                        ELSE encode(IF v = "trader3" THEN Products3 ELSE ProductsR2,
                                    [product \in Tracked(v) |-> Seed(n)])
        /\ quotes = <<>>
        /\ history = prices_map
        /\ before = Memory
        /\ in_memory = Memory
        /\ twin_out = [outcome |-> "fresh", result |-> <<>>, conversions |-> 0,
                       traderData |-> <<>>]
        /\ handed = TRUE
        /\ rounds = 0

\* the ghost history: one more price for every product that traded this round
Recorded(h, st) ==
    [product \in DOMAIN h |->
        IF has_trade(st, product) THEN Append(h[product], last_trade_price(st, product))
        ELSE h[product]]

\* the effects of one round on snapshot st: r is what run gives on the instance,
\* t what it gives on the instance of the round before
Round(st, r, t) ==
    /\ prices_map' = IF variant = "trader2" THEN prices_map ELSE r.memory
    /\ historical_prices' = IF variant = "trader2" THEN r.memory ELSE historical_prices
    /\ history' = IF variant = "trader2" THEN history ELSE Recorded(history, st)
    /\ state' = st
    /\ outcome' = r.outcome
    /\ result' = r.result
    /\ conversions' = r.conversions
    /\ traderData' = IF r.outcome = "returned" THEN r.traderData ELSE traderData
    /\ quotes' = r.quotes
    /\ before' = Memory
    /\ in_memory' = r.memory
    /\ twin_out' = IF in_memory = Memory THEN Out(r) ELSE Out(t)
    /\ handed' = (st.traderData = traderData)
    /\ rounds' = rounds + 1
    /\ UNCHANGED variant

\* the instance is waiting for a snapshot
Waiting == outcome \in {"fresh", "idle"}


Run3 ==
    /\ variant = "trader3"
    /\ Waiting
    /\ rounds < MaxRounds
    /\ \E focus \in Listed(variant) :
       \E m \in Markets(variant, focus) :
       \E st \in {Snapshot(variant, traderData, focus, m)} :
            Round(st, run3(prices_map, st), run3(in_memory, st))

RunR2 ==
    /\ variant = "trader_round2"
    /\ Waiting
    /\ rounds < MaxRounds
    /\ \E focus \in Listed(variant) :
       \E m \in Markets(variant, focus) :
       \E st \in {Snapshot(variant, traderData, focus, m)} :
            Round(st, runR2(prices_map, st), runR2(in_memory, st))

\* state strings other than the one the last round returned
ForeignData ==
    { <<>>,
      <<Punct("{"), Tok("str", "KELP")>>,
      <<Punct("{"), Punct("}")>>,
      <<Tok("num", "0")>>,
      <<Tok("num", "5")>>,
      encode_value(PyList(<<PyInt(1), PyInt(2)>>)),
      encode_value(PyDict(<< <<"KELP", PyInt(5)>> >>)),
      encode_value(PyDict(<< <<"SQUID_INK", PyList(<<PyInt(40), PyInt(50)>>)>> >>)) }

Run2 ==
    /\ variant = "trader2"
    /\ Waiting
    /\ rounds < MaxRounds
    /\ \E focus \in Listed(variant) :
       \E m \in Markets(variant, focus), td \in {traderData} \cup ForeignData :
            /\ td # traderData => m = Quiet
            /\ \E st \in {Snapshot(variant, td, focus, m)} :
                    Round(st, run2(historical_prices, st), run2(in_memory, st))

\* the platform takes what run returned (or saw it raise); it keeps the state
\* string for the next snapshot
Deliver ==
    /\ ~Waiting
    /\ state' = NoState
    /\ outcome' = "idle"
    /\ result' = <<>>
    /\ conversions' = 0
    /\ quotes' = <<>>
    /\ before' = Memory
    /\ twin_out' = [outcome |-> "fresh", result |-> <<>>, conversions |-> 0,
                    traderData |-> <<>>]
    /\ handed' = TRUE
    /\ UNCHANGED <<variant, prices_map, historical_prices, traderData, history,
                   in_memory, rounds>>

\* the platform drops the instance: the next round runs on a new Trader()
Restart ==
    /\ outcome = "idle"
    /\ rounds < MaxRounds
    /\ prices_map' = IF variant = "trader2" THEN prices_map
                     ELSE [product \in Tracked(variant) |-> <<>>]
    /\ historical_prices' = PyNone
    /\ history' = prices_map'
    /\ before' = IF variant = "trader2" THEN historical_prices' ELSE prices_map'
    /\ outcome' = "fresh"
    /\ UNCHANGED <<variant, state, result, conversions, traderData, quotes,
                   in_memory, twin_out, handed, rounds>>

Next == Run3 \/ RunR2 \/ Run2 \/ Deliver \/ Restart

Spec == Init /\ [][Next]_vars

----------------------------------------------------------------------------
(* IEEE 754 binary64, the arithmetic ewma runs in. A float >= 0 is m * 2^e,  *)
(* m a natural of at most 53 bits held as limbs base 2^LimbBits, the lowest  *)
(* limb first; a limb sequence may end in zero limbs.                        *)

LimbBits == 14

limb_at(a, i) == IF i \in 1..Len(a) THEN a[i] ELSE 0

\* the limbs of sum(xs[j] * 2^(LimbBits*(j-1)) : j >= i) + c, a natural
RECURSIVE Carried(_, _, _)
Carried(xs, i, c) ==
    IF i > Len(xs) /\ c = 0 THEN <<>>
    ELSE <<(limb_at(xs, i) + c) % 2^LimbBits>>
             \o Carried(xs, i + 1, (limb_at(xs, i) + c) \div 2^LimbBits)

\* a + sgn * b, for sgn = 1, or sgn = -1 and a >= b
BigPlus(a, sgn, b) ==
    Carried(Dict([i \in 1..(Len(a) + Len(b)) |-> limb_at(a, i) + sgn * limb_at(b, i)]), 1, 0)

BigMul(a, b) ==
    Carried(Dict([k \in 1..(Len(a) + Len(b)) |->
                    ISum([i \in 1..Len(a) |-> a[i] * limb_at(b, k - i + 1)])]), 1, 0)

\* a * 2^s
BigShl(a, s) ==
    BigMul(a, Dict([i \in 1..(s \div LimbBits + 1) |->
                       IF i = s \div LimbBits + 1 THEN 2^(s % LimbBits) ELSE 0]))

\* a \div 2^s
BigShr(a, s) ==
    LET q == s \div LimbBits
        r == s % LimbBits
    IN  Dict([i \in 1..(Len(a) - q) |->
                (a[i + q] \div 2^r) + (limb_at(a, i + q + 1) % 2^r) * 2^(LimbBits - r)])

\* the number of bits of a
BitLen(a) ==
    LET set == {i \in 1..Len(a) : a[i] # 0}
    IN  IF set = {} THEN 0
        ELSE LimbBits * (Max(set) - 1)
                 + (CHOOSE k \in 1..LimbBits : 2^(k - 1) <= a[Max(set)] /\ a[Max(set)] < 2^k)

\* a <= b
BigLe(a, b) ==
    LET differ == {i \in 1..(Len(a) + Len(b)) : limb_at(a, i) # limb_at(b, i)}
    IN  differ = {} \/ limb_at(a, Max(differ)) < limb_at(b, Max(differ))

\* the float nearest m * 2^e, a tie going to the even one
FRound(m, e) ==
    LET s == BitLen(m) - 53
        q == BigShr(m, s)
        twice_rest == BigShl(BigPlus(m, -1, BigShl(q, s)), 1)
        up == /\ BigLe(BigShl(<<1>>, s), twice_rest)
              /\ q[1] % 2 = 1 \/ ~BigLe(twice_rest, BigShl(<<1>>, s))
    IN  IF s <= 0 THEN [m |-> Dict([i \in 1..4 |-> limb_at(m, i)]), e |-> e]
        ELSE [m |-> Dict([i \in 1..4 |-> limb_at(IF up THEN BigPlus(q, 1, <<1>>) ELSE q, i)]),
              e |-> e + s]

\* a * b
FMul(a, b) == FRound(BigMul(a.m, b.m), a.e + b.e)

\* a + b for sgn = 1; a - b for sgn = -1 and a >= b
FPlus(a, sgn, b) ==
    FRound(BigPlus(BigShl(a.m, a.e - IMin(a.e, b.e)), sgn,
                   BigShl(b.m, b.e - IMin(a.e, b.e))), IMin(a.e, b.e))

\* a <= b
FLe(a, b) ==
    BigLe(BigShl(a.m, a.e - IMin(a.e, b.e)), BigShl(b.m, b.e - IMin(a.e, b.e)))

\* float(i) of an int i >= 0
FInt(i) == [m |-> Carried(<<i>>, 1, 0), e |-> 0]

\* the float of the literals 0.1, 0.2, 0.3, 0.5 and 1.0
Tenths(k) ==
    CASE k = 1 -> [m |-> <<3277, 13107, 3276, 819>>, e |-> -55]
      [] k = 2 -> [m |-> <<3277, 13107, 3276, 819>>, e |-> -54]
      [] k = 3 -> [m |-> <<13107, 3276, 13107, 1228>>, e |-> -54]
      [] k = 5 -> [m |-> <<1>>, e |-> -1]
      [] OTHER -> [m |-> <<1>>, e |-> 0]

\* ewma in float arithmetic, the loop from prices[i] on, entered with avg:
\* avg = alpha * p + (1 - alpha) * avg
RECURSIVE ewma_float_from(_, _, _, _)
ewma_float_from(prices, alpha, avg, i) ==
    IF i > Len(prices) THEN avg
    ELSE <<avg, ewma_float_from(prices, alpha,
                                FPlus(FMul(alpha, FInt(prices[i])), 1,
                                      FMul(FPlus(FInt(1), -1, alpha), avg)),
                                i + 1)>>[2]

\* ewma(prices, alpha) on a list of ints
ewma_float(prices, alpha) ==
    IF prices = <<>> THEN FInt(0) ELSE ewma_float_from(prices, alpha, FInt(prices[1]), 2)

----------------------------------------------------------------------------
(* The estimators called on their own: state holds the arguments of the    *)
(* call, result what it returns.                                            *)

MaxLen == 3
MaxLine == 6

\* price lists of at most MaxLen prices
PriceLists == UNION {[1..n -> {12, 13, 21}] : n \in 0..MaxLen}

\* the prices a + b*i, i = 0..n-1
Lines == {[i \in 1..n |-> a + b * (i - 1)] : a \in {10, 50}, b \in -3..3, n \in 0..MaxLine}

CallInit ==
    /\ \/ /\ variant = "ewma"
          /\ state \in [prices : PriceLists, alpha : {1, 2, 3, 5, 10}]
       \/ /\ variant = "linear_regression"
          /\ state \in [prices : PriceLists \cup Lines]
    /\ outcome = "fresh"
    /\ result = <<>>
    /\ prices_map = <<>>
    /\ historical_prices = PyNone
    /\ conversions = 0
    /\ traderData = <<>>
    /\ quotes = <<>>
    /\ history = <<>>
    /\ before = <<>>
    /\ in_memory = <<>>
    /\ twin_out = <<>>
    /\ handed = FALSE
    /\ rounds = 0

Call_ewma ==
    /\ variant = "ewma"
    /\ outcome = "fresh"
    /\ result' = ewma_float(state.prices, Tenths(state.alpha))
    /\ outcome' = "returned"
    /\ UNCHANGED <<variant, prices_map, historical_prices, state, conversions, traderData,
                   quotes, history, before, in_memory, twin_out, handed, rounds>>

Call_linear_regression ==
    /\ variant = "linear_regression"
    /\ outcome = "fresh"
    /\ result' = linear_regression(ToQ(state.prices))
    /\ outcome' = "returned"
    /\ UNCHANGED <<variant, prices_map, historical_prices, state, conversions, traderData,
                   quotes, history, before, in_memory, twin_out, handed, rounds>>

CallNext == Call_ewma \/ Call_linear_regression

CallSpec == CallInit /\ [][CallNext]_vars

----------------------------------------------------------------------------
(* The claims.                                                             *)

\* the market-making variants
MarketMaker == variant \in {"trader3", "trader_round2"}

\* C1: in the market-making variants, a quoted product whose position starts
\* the round inside [-limit, +limit] is still inside it when its buy order, its
\* sell order, or both are fully filled.
C1_filled_round_within_limit ==
    (MarketMaker /\ outcome = "returned") =>
        \A product \in DOMAIN quotes :
            LET pos == position_get(state, product)
                limit == LimitOf(variant, product)
                orders == result[product]
                bought == ISum([i \in 1..Len(orders) |->
                              IF orders[i].quantity > 0 THEN orders[i].quantity ELSE 0])
                sold == ISum([i \in 1..Len(orders) |->
                            IF orders[i].quantity < 0 THEN orders[i].quantity ELSE 0])
                Inside(x) == -limit <= x /\ x <= limit
            IN  Inside(pos) =>
                    Inside(pos + bought) /\ Inside(pos + sold) /\ Inside(pos + bought + sold)

\* a product two units under its limit is quoted with a size above two: the buy is
\* cut to the two units of room
C1_buy_cut_to_room ==
    /\ MarketMaker
    /\ outcome = "returned"
    /\ \E product \in DOMAIN quotes :
        /\ position_get(state, product) = LimitOf(variant, product) - 2
        /\ quotes[product].base_size > 2
        /\ \E i \in 1..Len(result[product]) : result[product][i].quantity = 2

\* C2: for every quoted product in every round the quoted bid price is strictly
\* below the quoted ask price.
C2_bid_below_ask ==
    (MarketMaker /\ outcome = "returned") =>
        \A product \in DOMAIN quotes :
            quotes[product].bid_price < quotes[product].ask_price

\* C3: after any sequence of rounds, with any number of market trades per round,
\* every price window the engine holds has length at most W = 20.
C3_window_at_most_W ==
    MarketMaker => \A product \in DOMAIN prices_map : Len(prices_map[product]) <= 20

\* a product with a full window traded, two trades in the round
C3_full_window_traded ==
    /\ MarketMaker
    /\ \E product \in DOMAIN prices_map :
        /\ Len(before[product]) = 20
        /\ product \in DOMAIN state.market_trades
        /\ Len(state.market_trades[product]) = 2
        /\ Len(prices_map[product]) = 20

\* C4: a tracked product's window is, in arrival order, the last min(k, W) of the
\* last-trade prices of the k rounds in which the product traded; the oldest entry
\* is the one evicted.
C4_window_is_history_tail ==
    MarketMaker =>
        \A product \in DOMAIN prices_map :
            LET k == Len(history[product])
                kept == IF k < 20 THEN k ELSE 20
            IN  prices_map[product] = [i \in 1..kept |-> history[product][k - kept + i]]

\* a product has traded in more than W rounds, the last one with two trades
C4_oldest_evicted ==
    /\ MarketMaker
    /\ \E product \in DOMAIN prices_map :
        /\ Len(history[product]) > 20
        /\ product \in DOMAIN state.market_trades
        /\ Len(state.market_trades[product]) = 2

\* C5: a round in which a product has no market trade (absent from market_trades
\* or an empty trade list) leaves that product's window unchanged: a round changes
\* the windows of the products that traded in it and no other.
C5_untraded_window_unchanged ==
    MarketMaker =>
        \A product \in DOMAIN prices_map :
            (product \notin DOMAIN state.market_trades \/ state.market_trades[product] = <<>>)
                => prices_map[product] = before[product]

\* one product traded and its window changed, next to a product that did not
\* trade and whose non-empty window stayed
C5_one_traded_other_kept ==
    /\ MarketMaker
    /\ \E traded, other \in DOMAIN prices_map :
        /\ prices_map[traded] # before[traded]
        /\ other \notin DOMAIN state.market_trades
        /\ before[other] # <<>>
        /\ prices_map[other] = before[other]

\* C6: a fresh instance that is handed the state string returned by the round
\* before returns, for the next round, the same orders, conversion value and state
\* string as the instance that ran the rounds before in memory.
C6_fresh_instance_same_round ==
    (handed /\ ~Waiting) =>
        /\ twin_out.outcome = outcome
        /\ outcome = "returned" =>
            /\ twin_out.result = result
            /\ twin_out.conversions = conversions
            /\ twin_out.traderData = traderData

\* C7: trader2's run does not fail, whatever the incoming state string is: it
\* returns orders, a conversion value and a state string.
C7_taker_run_returns ==
    (variant = "trader2" /\ ~Waiting) => outcome = "returned"

\* C8: for every snapshot run completes without raising, and its result maps
\* every product of order_depths to an order list, the empty one for every product
\* the engine does not trade.
C8_run_completes ==
    (MarketMaker /\ ~Waiting) =>
        /\ outcome = "returned"
        /\ DOMAIN result = DOMAIN state.order_depths
        /\ \A product \in DOMAIN result :
            product \notin Traded(variant) => result[product] = <<>>

\* C9 as stated: a product whose order book is empty on both sides gets no order
\* in that round.
C9_empty_book_no_orders ==
    (MarketMaker /\ outcome = "returned") =>
        \A product \in DOMAIN quotes :
            (/\ DOMAIN state.order_depths[product].buy_orders = {}
             /\ DOMAIN state.order_depths[product].sell_orders = {})
                => result[product] = <<>>

\* C9: a product whose order book is empty on both sides is quoted all the same:
\* it gets a buy order exactly when limit - position > 0 and a sell order exactly
\* when limit + position > 0.
C9_empty_book_still_quoted ==
    (MarketMaker /\ outcome = "returned") =>
        \A product \in DOMAIN quotes :
            (/\ DOMAIN state.order_depths[product].buy_orders = {}
             /\ DOMAIN state.order_depths[product].sell_orders = {})
                => LET orders == result[product]
                       pos == position_get(state, product)
                       limit == LimitOf(variant, product)
                   IN  /\ (\E i \in 1..Len(orders) : orders[i].quantity > 0) <=> limit - pos > 0
                       /\ (\E i \in 1..Len(orders) : orders[i].quantity < 0) <=> limit + pos > 0

\* a product with an empty book gets a buy and a sell
C9_empty_book_two_orders ==
    /\ MarketMaker
    /\ outcome = "returned"
    /\ \E product \in DOMAIN quotes :
        /\ DOMAIN state.order_depths[product].buy_orders = {}
        /\ DOMAIN state.order_depths[product].sell_orders = {}
        /\ Len(result[product]) = 2

C12_conversion_within_limit ==
    outcome = "returned" =>
        /\ variant = "trader_round2" =>
                \A basket \in DOMAIN conversions : IAbs(conversions[basket]) <= 5
        /\ variant = "trader2" => IAbs(conversions) <= 5
        /\ variant = "trader3" =>
                LET obs == state.observations.conversionObservations
                    pos(product) == IF product \in DOMAIN state.position
                                    THEN state.position[product] ELSE 0
                    margin(product) ==
                        (obs[product].bidPrice - obs[product].askPrice)
                            - (obs[product].transportFees + obs[product].exportTariff
                                   + obs[product].importTariff)
                    gainful == {product \in Traded3 \cap DOMAIN obs :
                                    pos(product) # 0 /\ margin(product) > 0}
                IN  /\ IAbs(conversions) <= 5
                    /\ conversions # 0 =>
                            \E product \in gainful :
                                conversions = IF IAbs(pos(product)) < 5
                                              THEN IAbs(pos(product)) ELSE 5

\* a trader3 round converts a short position of 3, below the limit of 5
C12_small_position_converted ==
    /\ variant = "trader3" /\ outcome = "returned"
    /\ "KELP" \in DOMAIN state.observations.conversionObservations
    /\ "KELP" \in DOMAIN state.position /\ state.position["KELP"] = -3
    /\ conversions = 3

\* C13: ewma returns 0 for the empty list and p for [p], and for a non-empty
\* list of prices and alpha in (0, 1] a value between min(prices) and
\* max(prices).
C13_ewma_within_price_range ==
    (variant = "ewma" /\ outcome = "returned") =>
        LET prices == state.prices
            set == {prices[i] : i \in 1..Len(prices)}
            same(a, b) == FLe(a, b) /\ FLe(b, a)
        IN  /\ prices = <<>> => same(result, FInt(0))
            /\ Len(prices) = 1 => same(result, FInt(prices[1]))
            /\ prices # <<>> => FLe(FInt(Min(set)), result) /\ FLe(result, FInt(Max(set)))

\* C14: linear_regression returns (0, 0) for the empty list and (p, 0) for [p];
\* for n >= 2 prices on a line p_i = a + b*i, i = 0..n-1, it returns the value
\* a + b*n one step ahead and the slope b.
C14_regression_extends_line ==
    (variant = "linear_regression" /\ outcome = "returned") =>
        LET prices == state.prices
            n == Len(prices)
            a == prices[1]
            b == prices[2] - prices[1]
        IN  /\ n = 0 => result = <<QInt(0), QInt(0)>>
            /\ n = 1 => result = <<QInt(prices[1]), QInt(0)>>
            /\ (n >= 2 /\ \A i \in 1..n : prices[i] = a + b * (i - 1)) =>
                    result = <<QInt(a + b * n), QInt(b)>>

\* six prices falling by 3 from 10: the next one is -8
C14_falling_line_extended ==
    /\ variant = "linear_regression" /\ outcome = "returned"
    /\ state.prices = <<10, 7, 4, 1, -2, -5>>
    /\ result = <<QInt(-8), QInt(-3)>>

\* C15: the liquidity factor of compute_order_size is the average of the size
\* at the best (highest) bid and the size (magnitude) at the best (lowest) ask
\* when the book has both sides, the size at the best price of the one side
\* when it has one, and the base scale when it is empty; it is strictly
\* positive whenever the resting sizes are non-zero.  (A product with an empty
\* window gets size 1 before any liquidity factor is computed.)
C15_liquidity_from_best_prices ==
    (MarketMaker /\ outcome = "returned") =>
        \A product \in {q \in DOMAIN quotes : quotes[q].recent_prices # <<>>} :
        \A base_scale \in 3..6 :
            LET od == state.order_depths[product]
                bids == od.buy_orders
                asks == od.sell_orders
                best_bid_size == bids[Max(DOMAIN bids)]
                best_ask_size == IAbs(asks[Min(DOMAIN asks)])
                factor == liquidity_factor(od, base_scale)
            IN  /\ factor = CASE DOMAIN bids # {} /\ DOMAIN asks # {} ->
                                     Q(best_bid_size + best_ask_size, 2)
                              [] DOMAIN bids # {} /\ DOMAIN asks = {} -> QInt(best_bid_size)
                              [] DOMAIN bids = {} /\ DOMAIN asks # {} -> QInt(best_ask_size)
                              [] OTHER -> QInt(base_scale)
                /\ factor.n > 0

\* C16: the size a round quotes a product with is computed from the gap between
\* the last price of the product's window and the fair value of the product in
\* that round; the position does not enter it, so the same round with another
\* position of the product computes the same size.
C16_size_from_price_gap ==
    (variant = "trader3" /\ outcome = "returned") =>
        \A product \in DOMAIN quotes :
            LET q == quotes[product]
                od == state.order_depths[product]
            IN  /\ q.base_size = compute_order_size(product, q.recent_prices, od,
                                                    q.current_pos, q.fv)
                /\ \A other_pos \in {-LIMIT, 0, LIMIT} :
                        q.base_size = quote_of3(product, q.fv, q.spread, q.recent_prices,
                                                other_pos, od).base_size

\* C17: the order list of a quoted product holds at most one buy and at most
\* one sell; the buy (positive quantity, at the bid price) is there exactly
\* when limit - position > 0, with quantity min(size, limit - position); the
\* sell (negative quantity, at the ask price) exactly when limit + position > 0,
\* with magnitude min(size, limit + position).  With limit 50, position 10,
\* fair value 100, spread 4 and size 5: a buy of 5 at 98 and a sell of 5 at 102.
C17_one_buy_one_sell ==
    /\ quote_orders("KELP", bid_price_of(QInt(100), Surd(QInt(4), QInt(0))),
                    ask_price_of(QInt(100), Surd(QInt(4), QInt(0))), 5, 10, 50)
            = <<Order("KELP", 98, 5), Order("KELP", 102, -5)>>
    /\ (MarketMaker /\ outcome = "returned") =>
        \A product \in DOMAIN quotes :
            LET q == quotes[product]
                orders == result[product]
                buys == {i \in 1..Len(orders) : orders[i].quantity > 0}
                sells == {i \in 1..Len(orders) : orders[i].quantity < 0}
                room_up == q.limit - q.current_pos
                room_down == q.limit + q.current_pos
            IN  /\ Cardinality(buys) <= 1 /\ Cardinality(sells) <= 1
                /\ Len(orders) = Cardinality(buys) + Cardinality(sells)
                /\ buys # {} <=> room_up > 0
                /\ sells # {} <=> room_down > 0
                /\ \A i \in buys :
                        /\ orders[i].price = q.bid_price
                        /\ orders[i].quantity = IF q.base_size < room_up
                                                THEN q.base_size ELSE room_up
                /\ \A i \in sells :
                        /\ orders[i].price = q.ask_price
                        /\ -orders[i].quantity = IF q.base_size < room_down
                                                 THEN q.base_size ELSE room_down

\* a product held at its limit is quoted with a sell order only
C17_at_limit_sell_only ==
    /\ MarketMaker /\ outcome = "returned"
    /\ \E product \in DOMAIN quotes :
            /\ quotes[product].current_pos = quotes[product].limit
            /\ Len(result[product]) = 1
            /\ result[product][1].quantity = -quotes[product].base_size
            /\ quotes[product].base_size > 1

\* C18: in trader_round2 the fair value of PICNIC_BASKET1 is 6*fv(CROISSANTS)
\* + 3*fv(JAMS) + fv(DJEMBES) and that of PICNIC_BASKET2 is 4*fv(CROISSANTS)
\* + 2*fv(JAMS), on the ingredients' fair values of the same round, and a
\* basket's spread is max(1, 5% of its fair value).
C18_basket_value_from_ingredients ==
    (variant = "trader_round2" /\ outcome = "returned") =>
        \A basket \in Baskets \cap DOMAIN quotes :
            LET fv(product) == estimateR2(product, ToQ(prices_map[product])).fv
                value == IF basket = "PICNIC_BASKET1"
                         THEN QAdd(QAdd(QMul(QInt(6), fv("CROISSANTS")),
                                        QMul(QInt(3), fv("JAMS"))), fv("DJEMBES"))
                         ELSE QAdd(QMul(QInt(4), fv("CROISSANTS")), QMul(QInt(2), fv("JAMS")))
                part == QMul(Q(5, 100), value)
            IN  /\ quotes[basket].fv = value
                /\ quotes[basket].spread = IF QLt(QInt(1), part) THEN Surd(part, QInt(0))
                                           ELSE Surd(QInt(1), QInt(0))
                /\ \A product \in TrackedR2 \cap DOMAIN quotes : quotes[product].fv = fv(product)

\* ingredients at 10 each: PICNIC_BASKET1 is valued 100 with spread 5
C18_basket_of_tens ==
    /\ variant = "trader_round2" /\ outcome = "returned"
    /\ "PICNIC_BASKET1" \in DOMAIN quotes
    /\ quotes["PICNIC_BASKET1"].fv = QInt(100)
    /\ quotes["PICNIC_BASKET1"].spread = Surd(QInt(5), QInt(0))

\* C19: in the taker variant, a traded product whose best (lowest) ask is
\* strictly below its fair value, with a position that leaves room to buy, gets
\* an order at the best-ask price; resting sell quantities are negative.
C19_taker_buys_below_fair_value ==
    (variant = "trader2" /\ outcome = "returned") =>
        \A product \in DOMAIN quotes :
            LET asks == state.order_depths[product].sell_orders
                best_ask == Min(DOMAIN asks)
                orders == result[product]
            IN  (/\ DOMAIN asks # {}
                 /\ \A price \in DOMAIN asks : asks[price] < 0
                 /\ QLt(QInt(best_ask), quotes[product].fair_value)
                 /\ quotes[product].current_position < LIMIT)
                    => \E i \in 1..Len(orders) : orders[i].price = best_ask

\* C20: every order emitted by a market-making round has a strictly positive
\* price when all observed trade prices are positive, also while a quoted
\* product's window is still empty and under a steep projected downward trend.
C20_order_prices_positive ==
    (MarketMaker /\ outcome = "returned"
     /\ \A symbol \in DOMAIN state.market_trades :
            \A i \in 1..Len(state.market_trades[symbol]) :
                state.market_trades[symbol][i].price > 0) =>
        \A product \in DOMAIN result :
            \A i \in 1..Len(result[product]) : result[product][i].price > 0

====
